---- MODULE Spec2Model ----
(***************************************************************************)
(* Telemetry dispatch of the New Relic Lambda extension.                   *)
(*                                                                         *)
(*  - sendDataToNR: one dispatch cycle of the Telemetry API dispatcher     *)
(*    (build payloads, compress/split, one goroutine per chunk, join on a  *)
(*    sync.WaitGroup, collect errors from a buffered channel).             *)
(*  - AgentTelemetryDispatcher.Dispatch: batching and harvesting of agent  *)
(*    telemetry.                                                           *)
(***************************************************************************)
EXTENDS Integers, Sequences, FiniteSets, TLC

\* ------------------------------------------------------------------ bounds

\* longest harvested sequence of telemetry records given to sendDataToNR
MaxRecords == 2

\* compressed size contributed by a small record / a large record
SmallSize == 400000
BigSize == 700000

\* chunks of agent telemetry that arrive on the telemetry channel
MaxChunks == 3

\* calls of AgentTelemetryDispatcher.Dispatch in one run
MaxDispatch == 4

\* Invoke events NextEvent returns before the Shutdown event
MaxEvents == 2

\* characters of a license key
MaxKeyLen == 2

\* records of a collection handed to a splitting function
MaxSplitLen == 4

\* recursion depth at which the goroutine's stack is taken as exhausted
MaxDepth == 4

\* compressed size of a record that is over either limit on its own
HugeSize == 1100000

\* compressed size of the RequestData envelope around the log events
EnvelopeSize == 300

\* conf.AgentTelemetryBatchSize, in chunks
BatchSize == 1

\* ------------------------------------------------------- program constants

maxPayloadSizeBytes == 1000000
\* request.go line 13: 1000 * 1024
maxCompressedPayloadLen == 1024000

\* capacity of errChan: make(chan error, 4)
ErrChanCap == 4

\* ----------------------------------------------------------------- state

VARIABLES
    logEntries,     \* sendDataToNR argument: the harvested records
    accountID,      \* d.accountID is non-empty
    pc,             \* position of the goroutine running sendDataToNR
    data,           \* payload map returned by buildPayloads
    payloads,       \* logPayloads / eventPayloads being ranged over
    idx,            \* index of the range loop over payloads
    waitForSend,    \* counter of the sync.WaitGroup
    errChan,        \* buffered channel of errors (FIFO contents)
    tasks,          \* delivery goroutines launched so far, in launch order
    chunks,         \* compressed chunks produced so far
    traceErr,       \* err captured by the traces goroutine (line 408)
    result,         \* value returned by sendDataToNR
    drainI,         \* loop variable i of the collection loop
    compressFailed, \* some Compress call of the cycle returned an error
    collectData,    \* disp.collectData (conf.CollectAgentData)
    telemetryChan,  \* disp.telemetryChan: agent telemetry not yet received
    batch,          \* disp.batch: the invocations held, in insertion order
    elapsed,        \* the batch's time threshold has passed since the last harvest
    sendCalls,      \* the telemetry slices given to SendTelemetry, in call order
    added,          \* the chunks given to batch.AddTelemetry so far
    nextChunk,      \* identity of the next chunk of agent telemetry to arrive
    lastCall,       \* what the latest Dispatch call did
    ctxDone,        \* the context of main has been cancelled
    mainPc,         \* position of main in its event loop
    res,            \* the event NextEvent returned last
    nEvents,        \* events NextEvent has returned so far
    callLog,        \* the Dispatch calls main made and saw return, in order
    exitBy,         \* why main returned
    queuedAtShutdown, \* telemetryChan when the Shutdown event was received
    splitter,       \* which of the two splitting functions is running
    records,        \* the collection given to it
    stack,          \* its recursive calls not yet evaluated, innermost first
    outChunks,      \* the chunks returned so far, left to right
    splitPc,        \* where the splitter stands
    shrinks,        \* every recursive call so far got a shorter collection
    licenseKey,     \* d.licenseKey
    overrides,      \* configured endpoint override of each signal type
    delivered       \* the latest delivery: signal type and URL

sendVars == <<logEntries, accountID, pc, data, payloads, idx, waitForSend,
              errChan, tasks, chunks, traceErr, result, drainI, compressFailed>>

agentVars == <<collectData, telemetryChan, batch, elapsed, sendCalls, added,
               nextChunk, lastCall>>

mainVars == <<ctxDone, mainPc, res, nEvents, callLog, exitBy,
              queuedAtShutdown>>

splitVars == <<splitter, records, stack, outChunks, splitPc, shrinks>>

urlVars == <<licenseKey, overrides, delivered>>

vars == <<sendVars, agentVars, mainVars, splitVars, urlVars>>

\* --------------------------------------------------------- telemetry input

Signals == {"events", "traces", "logging", "metrics"}

\* A LambdaTelemetryEvent as buildPayloads sees it: whether Time parses as
\* RFC3339, the kind of Record (nil, a non-map value, a map), the number of
\* keys under "metrics", for each element of "spans" whether its "start"
\* parses, and the compressed size the record contributes to a payload.
TelemetryEvent(timeOk, body, nMetrics, spans, size) ==
    [timeOk |-> timeOk, body |-> body, nMetrics |-> nMetrics,
     spans |-> spans, size |-> size]

LambdaTelemetryEvent ==
    { TelemetryEvent(FALSE, "text", 0, <<>>, SmallSize),
      TelemetryEvent(TRUE, "nil", 0, <<>>, BigSize),
      TelemetryEvent(TRUE, "text", 0, <<>>, SmallSize),
      TelemetryEvent(TRUE, "map", 1, <<TRUE>>, BigSize),
      TelemetryEvent(TRUE, "map", 1, <<FALSE>>, SmallSize) }

SeqsUpTo(S, n) == UNION { [1..k -> S] : k \in 0..n }

\* ---------------------------------------------------------- buildPayloads

\* one element of a payload collection: the record it was built from, its
\* position among the elements that record produced, its compressed size
Entry(src, n, size) == [src |-> src, n |-> n, size |-> size]

\* the nil map returned beside an error; len(nil) = 0
NilData == [s \in {} |-> <<>>]

EmptyData == [s \in Signals |-> <<>>]

\* AppendEvent leaving out a record that carries no body altogether
AppendEvent_BodyOnly(d, i, event) ==
    IF event.body = "nil" THEN d
    ELSE [d EXCEPT
            !["events"] = Append(@, Entry(i, 1, event.size)),
            !["logging"] = Append(@, Entry(i, 1, event.size))]

\* the payload map after one record has been processed (lines 140-236)
AppendEvent(d, i, event) ==
    LET hasBody == event.body # "nil"
        isMap == event.body = "map"
    IN [d EXCEPT
          !["events"] = Append(@, Entry(i, 1, event.size)),
          !["logging"] = IF hasBody THEN Append(@, Entry(i, 1, event.size)) ELSE @,
          !["metrics"] = IF isMap
                         THEN @ \o [k \in 1..event.nMetrics |-> Entry(i, k, 0)]
                         ELSE @,
          !["traces"] = IF isMap
                        THEN @ \o [k \in 1..Len(event.spans) |-> Entry(i, k, 0)]
                        ELSE @]

\* ParseFails with the error of a span's time.Parse ignored
ParseFails_TimeOnly(event) == ~event.timeOk

\* the record makes buildPayloads return nil, err (lines 136-139, 217-221)
ParseFails(event) ==
    \/ ~event.timeOk
    \/ /\ event.body = "map"
       /\ \E k \in 1..Len(event.spans) : ~event.spans[k]

RECURSIVE BuildFrom(_, _, _)
BuildFrom(entries, i, d) ==
    IF i > Len(entries) THEN [err |-> FALSE, data |-> d]
    ELSE IF ParseFails(entries[i]) THEN [err |-> TRUE, data |-> NilData]
    ELSE BuildFrom(entries, i + 1, AppendEvent(d, i, entries[i]))

buildPayloads(entries) == BuildFrom(entries, 1, EmptyData)

\* ------------------------------------------------- marshalAndCompressData

RECURSIVE SumSize(_)
SumSize(d) == IF d = <<>> THEN 0 ELSE Head(d).size + SumSize(Tail(d))

\* compressed.Len() of the marshalled collection
CompressedLen(d) == SumSize(d)

\* the two functions that split a collection until its chunks fit
Splitters == {"marshalAndCompressData", "CompressedPayloadsForLogEvents"}

\* compressed.Len() in either function; the log events of
\* CompressedPayloadsForLogEvents are wrapped in a RequestData envelope
\* (request.go lines 54-76)
CompressedSize(which, d) ==
    IF which = "marshalAndCompressData" THEN CompressedLen(d)
    ELSE EnvelopeSize + SumSize(d)

\* the limit each function compares with
MaxSize(which) ==
    IF which = "marshalAndCompressData" THEN maxPayloadSizeBytes
    ELSE maxCompressedPayloadLen

\* TooLarge with no collection ever taken for too large
TooLarge_Never(which, d) == FALSE

\* part_000 line 250 and request.go line 85: the collection is split
TooLarge(which, d) ==
    IF which = "marshalAndCompressData"
    THEN CompressedSize(which, d) > maxPayloadSizeBytes
    ELSE ~(CompressedSize(which, d) <= maxCompressedPayloadLen)

\* SplitIndex putting every record into the right half
SplitIndex_Zero(d) == 0

\* part_000 line 252 and request.go line 90
SplitIndex(d) == Len(d) \div 2

\* part_000 line 253 and request.go line 91: data[0:split]
LeftHalf(d, split) == SubSeq(d, 1, split)

\* RightHalf starting one record late
RightHalf_Skip(d, split) == SubSeq(d, split + 2, Len(d))

\* part_000 line 258 and request.go line 96: data[split:]
RightHalf(d, split) == SubSeq(d, split + 1, Len(d))

RECURSIVE marshalAndCompressData(_)
marshalAndCompressData(d) ==
    IF TooLarge("marshalAndCompressData", d)
    THEN LET split == SplitIndex(d)
         IN marshalAndCompressData(LeftHalf(d, split))
              \o marshalAndCompressData(RightHalf(d, split))
    ELSE <<d>>

\* the sizes a single record compresses to: small, the rest of a full
\* payload, and more than either limit
SplitSizes == {SmallSize, maxPayloadSizeBytes - SmallSize, HugeSize}

\* the records of a collection, told apart by their position
Records(sizes) == [i \in DOMAIN sizes |-> Entry("split", i, sizes[i])]

\* one activation of the splitting function: its argument and how deep in
\* the recursion it is
Frame(recs, depth) == [recs |-> recs, depth |-> depth]

\* the splitting function is called on a collection
SplitInit ==
    /\ splitter \in Splitters
    /\ records \in { Records(sizes) : sizes \in SeqsUpTo(SplitSizes, MaxSplitLen) }
    /\ stack = <<Frame(records, 0)>>
    /\ outChunks = <<>>
    /\ splitPc = "running"
    /\ shrinks = TRUE

\* part_000 line 266 and request.go lines 85-87: the collection fits and is
\* returned as one chunk; chunks are appended left before right
SplitFits ==
    /\ splitPc = "running"
    /\ ~TooLarge(splitter, Head(stack).recs)
    /\ outChunks' = Append(outChunks, Head(stack).recs)
    /\ stack' = Tail(stack)
    /\ splitPc' = IF Tail(stack) = <<>> THEN "returned" ELSE "running"
    /\ UNCHANGED <<splitter, records, shrinks>>
    /\ UNCHANGED <<sendVars, agentVars, mainVars, urlVars>>

\* part_000 lines 250-264 and request.go lines 88-99: the collection is too
\* large; the function calls itself on the left half, then on the right half
SplitRecurse ==
    /\ splitPc = "running"
    /\ TooLarge(splitter, Head(stack).recs)
    /\ Head(stack).depth < MaxDepth
    /\ LET f == Head(stack)
           split == SplitIndex(f.recs)
           left == LeftHalf(f.recs, split)
           right == RightHalf(f.recs, split)
       IN /\ stack' = <<Frame(left, f.depth + 1), Frame(right, f.depth + 1)>>
                         \o Tail(stack)
          /\ shrinks' = /\ shrinks
                        /\ Len(left) < Len(f.recs)
                        /\ Len(right) < Len(f.recs)
    /\ UNCHANGED <<splitter, records, outChunks, splitPc>>
    /\ UNCHANGED <<sendVars, agentVars, mainVars, urlVars>>

\* the recursion has used up the goroutine's stack: the process dies
SplitOverflow ==
    /\ splitPc = "running"
    /\ TooLarge(splitter, Head(stack).recs)
    /\ Head(stack).depth >= MaxDepth
    /\ splitPc' = "overflow"
    /\ UNCHANGED <<splitter, records, stack, outChunks, shrinks>>
    /\ UNCHANGED <<sendVars, agentVars, mainVars, urlVars>>

SplitNext ==
    \/ SplitFits
    \/ SplitRecurse
    \/ SplitOverflow

\* ------------------------------------------------------------- sendDataToNR

Chunk(sig, n) == [sig |-> sig, n |-> n]

\* a delivery goroutine: the chunk it was given, where it is, how many times
\* it called httpClient.Do, whether sendData returned an error, whether its
\* payload buffer is usable
Task(sig, n, usable) ==
    [chunk |-> Chunk(sig, n), st |-> "sending", sent |-> 0, failed |-> FALSE,
     usable |-> usable]

\* values travelling through errChan
SendError(t) == [nil |-> FALSE, from |-> tasks[t].chunk.sig]
CompressError == [nil |-> FALSE, from |-> "compress"]
NilError == [nil |-> TRUE, from |-> "none"]

NoResult == [kind |-> "none", count |-> 0, causes |-> {}]
Returned(kind) == [kind |-> kind, count |-> 0, causes |-> {}]

SendInit ==
    /\ logEntries \in SeqsUpTo(LambdaTelemetryEvent, MaxRecords)
    /\ accountID \in BOOLEAN
    /\ pc = "start"
    /\ data = NilData
    /\ payloads = <<>>
    /\ idx = 1
    /\ waitForSend = 0
    /\ errChan = <<>>
    /\ tasks = <<>>
    /\ chunks = {}
    /\ traceErr = NilError
    /\ result = NoResult
    /\ drainI = 0
    /\ compressFailed = FALSE

\* `return err` / `return nil` of sendDataToNR
Return(r) ==
    /\ pc' = "returned"
    /\ result' = r

\* lines 313-318
Build ==
    /\ pc = "start"
    /\ LET r == buildPayloads(logEntries)
       IN /\ data' = r.data
          /\ IF r.err THEN Return(Returned("buildErr"))
             ELSE IF Cardinality(DOMAIN r.data) > 0
                  THEN pc' = "logging" /\ UNCHANGED result
                  ELSE Return(Returned("nil"))
    /\ UNCHANGED <<logEntries, accountID, payloads, idx, waitForSend, errChan,
                   tasks, chunks, traceErr, drainI, compressFailed>>
    /\ UNCHANGED <<agentVars, mainVars, splitVars, urlVars>>

\* what one iteration of the logging loop adds to the WaitGroup (line 332)
LogAdd(n) == n

\* EventsAdd adding one less than the number of goroutines
EventsAdd_Short(n) == n - 1

\* what is added to the WaitGroup before the events loop (line 376)
EventsAdd(n) == n

\* Launch with the closure capturing the loop variable instead of taking the
\* payload as its argument: every goroutine sends the last payload
Launch_Captured(sig, n) == <<Task(sig, Len(payloads), TRUE)>>

\* the goroutines started by one iteration of a range loop over payloads
\* (lines 333-339, 378-384)
Launch(sig, n) == <<Task(sig, n, TRUE)>>

\* line 324, condition false
LogSkip ==
    /\ pc = "logging"
    /\ Len(data["logging"]) = 0
    /\ pc' = "metrics"
    /\ UNCHANGED <<logEntries, accountID, data, payloads, idx, waitForSend,
                   errChan, tasks, chunks, traceErr, result, drainI,
                   compressFailed>>
    /\ UNCHANGED <<agentVars, mainVars, splitVars, urlVars>>

\* lines 324-328
LogCompress ==
    /\ pc = "logging"
    /\ Len(data["logging"]) > 0
    /\ \E ok \in BOOLEAN :
         IF ok
         THEN /\ payloads' = marshalAndCompressData(data["logging"])
              /\ chunks' = chunks \cup
                     { Chunk("logging", k) : k \in 1..Len(payloads') }
              /\ idx' = 1
              /\ pc' = "logLoop"
              /\ UNCHANGED <<result, compressFailed>>
         ELSE /\ compressFailed' = TRUE
              /\ Return(Returned("compressErr"))
              /\ UNCHANGED <<payloads, chunks, idx>>
    /\ UNCHANGED <<logEntries, accountID, data, waitForSend, errChan, tasks,
                   traceErr, drainI>>
    /\ UNCHANGED <<agentVars, mainVars, splitVars, urlVars>>

\* one iteration of the loop at lines 330-340
LogLaunch ==
    /\ pc = "logLoop"
    /\ idx <= Len(payloads)
    /\ waitForSend' = waitForSend + LogAdd(Len(payloads))
    /\ tasks' = tasks \o Launch("logging", idx)
    /\ idx' = idx + 1
    /\ pc' = IF idx = Len(payloads) THEN "metrics" ELSE "logLoop"
    /\ UNCHANGED <<logEntries, accountID, data, payloads, errChan, chunks,
                   traceErr, result, drainI, compressFailed>>
    /\ UNCHANGED <<agentVars, mainVars, splitVars, urlVars>>

\* line 343, condition false
MetricsSkip ==
    /\ pc = "metrics"
    /\ Len(data["metrics"]) = 0
    /\ pc' = "events"
    /\ UNCHANGED <<logEntries, accountID, data, payloads, idx, waitForSend,
                   errChan, tasks, chunks, traceErr, result, drainI,
                   compressFailed>>
    /\ UNCHANGED <<agentVars, mainVars, splitVars, urlVars>>

\* lines 343-366: Add(1), marshal, compress, then either return the
\* compression error or start the metrics goroutine
MetricsSend ==
    /\ pc = "metrics"
    /\ Len(data["metrics"]) > 0
    /\ waitForSend' = waitForSend + 1
    /\ \E ok \in BOOLEAN :
         IF ok
         THEN /\ chunks' = chunks \cup {Chunk("metrics", 1)}
              /\ tasks' = Append(tasks, Task("metrics", 1, TRUE))
              /\ pc' = "events"
              /\ UNCHANGED <<result, compressFailed>>
         ELSE /\ compressFailed' = TRUE
              /\ Return(Returned("compressErr"))
              /\ UNCHANGED <<chunks, tasks>>
    /\ UNCHANGED <<logEntries, accountID, data, payloads, idx, errChan,
                   traceErr, drainI>>
    /\ UNCHANGED <<agentVars, mainVars, splitVars, urlVars>>

\* line 368 false, or line 369 false (warning at line 387)
EventsSkip ==
    /\ pc = "events"
    /\ Len(data["events"]) = 0 \/ ~accountID
    /\ pc' = "traces"
    /\ UNCHANGED <<logEntries, accountID, data, payloads, idx, waitForSend,
                   errChan, tasks, chunks, traceErr, result, drainI,
                   compressFailed>>
    /\ UNCHANGED <<agentVars, mainVars, splitVars, urlVars>>

\* lines 368-376
EventsCompress ==
    /\ pc = "events"
    /\ Len(data["events"]) > 0
    /\ accountID
    /\ \E ok \in BOOLEAN :
         IF ok
         THEN /\ payloads' = marshalAndCompressData(data["events"])
              /\ chunks' = chunks \cup
                     { Chunk("events", k) : k \in 1..Len(payloads') }
              /\ waitForSend' = waitForSend + EventsAdd(Len(payloads'))
              /\ idx' = 1
              /\ pc' = "evLoop"
              /\ UNCHANGED <<result, compressFailed>>
         ELSE /\ compressFailed' = TRUE
              /\ Return(Returned("compressErr"))
              /\ UNCHANGED <<payloads, chunks, waitForSend, idx>>
    /\ UNCHANGED <<logEntries, accountID, data, errChan, tasks, traceErr,
                   drainI>>
    /\ UNCHANGED <<agentVars, mainVars, splitVars, urlVars>>

\* one iteration of the loop at lines 377-385
EventsLaunch ==
    /\ pc = "evLoop"
    /\ idx <= Len(payloads)
    /\ tasks' = tasks \o Launch("events", idx)
    /\ idx' = idx + 1
    /\ pc' = IF idx = Len(payloads) THEN "traces" ELSE "evLoop"
    /\ UNCHANGED <<logEntries, accountID, data, payloads, waitForSend,
                   errChan, chunks, traceErr, result, drainI, compressFailed>>
    /\ UNCHANGED <<agentVars, mainVars, splitVars, urlVars>>

\* line 391, condition false
TracesSkip ==
    /\ pc = "traces"
    /\ Len(data["traces"]) = 0
    /\ pc' = "wait"
    /\ UNCHANGED <<logEntries, accountID, data, payloads, idx, waitForSend,
                   errChan, tasks, chunks, traceErr, result, drainI,
                   compressFailed>>
    /\ UNCHANGED <<agentVars, mainVars, splitVars, urlVars>>

\* lines 391-418: Add(1), marshal, compress; the compression error is kept
\* in err, not checked, and the goroutine is started either way
TracesSend ==
    /\ pc = "traces"
    /\ Len(data["traces"]) > 0
    /\ waitForSend' = waitForSend + 1
    /\ \E ok \in BOOLEAN :
         /\ traceErr' = IF ok THEN NilError ELSE CompressError
         /\ compressFailed' = (compressFailed \/ ~ok)
         /\ chunks' = IF ok THEN chunks \cup {Chunk("traces", 1)} ELSE chunks
         /\ tasks' = Append(tasks, Task("traces", 1, ok))
    /\ pc' = "wait"
    /\ UNCHANGED <<logEntries, accountID, data, payloads, idx, errChan,
                   result, drainI>>
    /\ UNCHANGED <<agentVars, mainVars, splitVars, urlVars>>

\* waitForSend.Wait() returns (line 421)
Wait ==
    /\ pc = "wait"
    /\ waitForSend = 0
    /\ pc' = "collect"
    /\ UNCHANGED <<logEntries, accountID, data, payloads, idx, waitForSend,
                   errChan, tasks, chunks, traceErr, result, drainI,
                   compressFailed>>
    /\ UNCHANGED <<agentVars, mainVars, splitVars, urlVars>>

\* the value the goroutine of task t puts on errChan: the traces goroutine
\* sends the err of line 408, every other one the error sendData returned
ErrValue(t) ==
    IF tasks[t].chunk.sig = "traces" THEN traceErr ELSE SendError(t)

\* the aggregate error built at line 425
AggregateError(n) == [kind |-> "aggErr", count |-> n, causes |-> {}]

\* err after the statement `errors.Wrap(err, sendError.Error())` (line 428):
\* the wrapped error that Wrap returns is dropped
AfterWrap(err, sendError) == err

\* lines 424-426 and 434
Collect ==
    /\ pc = "collect"
    /\ IF Len(errChan) > 0
       THEN /\ result' = AggregateError(Len(errChan))
            /\ drainI' = 0
            /\ pc' = "drain"
       ELSE /\ Return(Returned("nil"))
            /\ UNCHANGED drainI
    /\ UNCHANGED <<logEntries, accountID, data, payloads, idx, waitForSend,
                   errChan, tasks, chunks, traceErr, compressFailed>>
    /\ UNCHANGED <<agentVars, mainVars, splitVars, urlVars>>

\* the loop test i < len(errChan) (line 426)
DrainMore(i, ch) == i < Len(ch)

\* the goroutines parked on `errChan <- err` because the buffer is full
Blocked == { t \in DOMAIN tasks : tasks[t].st = "blocked" }

\* one iteration of the loop at lines 426-429, or its exit and line 430.
\* The receive takes the oldest buffered error; if a sender is parked on the
\* full channel its value enters the buffer and it resumes, running its
\* deferred Done.  sendError.Error() on a nil error is a nil dereference.
Drain ==
    /\ pc = "drain"
    /\ IF DrainMore(drainI, errChan)
       THEN LET sendError == Head(errChan)
            IN /\ IF Blocked = {}
                  THEN /\ errChan' = Tail(errChan)
                       /\ UNCHANGED <<tasks, waitForSend>>
                  ELSE \E t \in Blocked :
                         /\ errChan' = Append(Tail(errChan), ErrValue(t))
                         /\ tasks' = [tasks EXCEPT ![t].st = "done"]
                         /\ waitForSend' = waitForSend - 1
               /\ IF sendError.nil
                  THEN pc' = "panicked" /\ UNCHANGED <<result, drainI>>
                  ELSE /\ result' = AfterWrap(result, sendError)
                       /\ drainI' = drainI + 1
                       /\ pc' = pc
       ELSE /\ pc' = "returned"
            /\ UNCHANGED <<errChan, result, drainI, tasks, waitForSend>>
    /\ UNCHANGED <<logEntries, accountID, data, payloads, idx, chunks,
                   traceErr, compressFailed>>
    /\ UNCHANGED <<agentVars, mainVars, splitVars, urlVars>>

\* ------------------------------------------------------ delivery goroutines

Running == pc # "panicked"

\* where sendDataToNR stands after a goroutine's deferred waitForSend.Done():
\* Done on a zero counter panics ("sync: negative WaitGroup counter")
AfterDone == IF waitForSend <= 0 THEN "panicked" ELSE pc

\* sendData returns nil; the deferred Done runs. The request carries the
\* context (part_000 lines 272-275), so httpClient.Do does not succeed once
\* the context is cancelled
TaskSendOk(t) ==
    /\ Running
    /\ ~ctxDone
    /\ tasks[t].st = "sending"
    /\ tasks' = [tasks EXCEPT ![t].st = "done", ![t].sent = @ + 1]
    /\ waitForSend' = waitForSend - 1
    /\ pc' = AfterDone
    /\ UNCHANGED <<logEntries, accountID, data, payloads, idx, errChan,
                   chunks, traceErr, result, drainI, compressFailed>>
    /\ UNCHANGED <<agentVars, mainVars, splitVars, urlVars>>

\* sendData returns an error (transport failure, timeout, cancelled context
\* or status >= 300): `errChan <- err` goes through when the buffer has room
\* and the deferred Done runs; on a full buffer the goroutine parks
TaskSendFail(t) ==
    /\ Running
    /\ tasks[t].st = "sending"
    /\ IF Len(errChan) < ErrChanCap
       THEN /\ errChan' = Append(errChan, ErrValue(t))
            /\ tasks' = [tasks EXCEPT ![t].st = "done", ![t].sent = @ + 1,
                                      ![t].failed = TRUE]
            /\ waitForSend' = waitForSend - 1
            /\ pc' = AfterDone
       ELSE /\ tasks' = [tasks EXCEPT ![t].st = "blocked", ![t].sent = @ + 1,
                                      ![t].failed = TRUE]
            /\ UNCHANGED <<errChan, waitForSend, pc>>
    /\ UNCHANGED <<logEntries, accountID, data, payloads, idx, chunks,
                   traceErr, result, drainI, compressFailed>>
    /\ UNCHANGED <<agentVars, mainVars, splitVars, urlVars>>

\* the payload of a failed compression is a nil buffer: building the
\* request dereferences it
TaskPanic(t) ==
    /\ Running
    /\ tasks[t].st = "sending"
    /\ ~tasks[t].usable
    /\ pc' = "panicked"
    /\ UNCHANGED <<logEntries, accountID, data, payloads, idx, waitForSend,
                   errChan, tasks, chunks, traceErr, result, drainI,
                   compressFailed>>
    /\ UNCHANGED <<agentVars, mainVars, splitVars, urlVars>>

\* the steps of the goroutine that runs sendDataToNR
SendSteps ==
    \/ Build
    \/ LogSkip
    \/ LogCompress
    \/ LogLaunch
    \/ MetricsSkip
    \/ MetricsSend
    \/ EventsSkip
    \/ EventsCompress
    \/ EventsLaunch
    \/ TracesSkip
    \/ TracesSend
    \/ Wait
    \/ Collect
    \/ Drain

SendNext ==
    \/ SendSteps
    \/ \E t \in DOMAIN tasks : TaskSendOk(t)
    \/ \E t \in DOMAIN tasks : TaskSendFail(t)
    \/ \E t \in DOMAIN tasks : TaskPanic(t)

\* ------------------------------------------------------------------ Batch

RequestIDs == {"r1", "r2"}

Invocation(rid, telemetry) == [id |-> rid, telemetry |-> telemetry]

Holds(b, rid) == \E i \in DOMAIN b : b[i].id = rid

\* registers a new Invocation if absent; idempotent per requestID
AddInvocation(b, rid) ==
    IF Holds(b, rid) THEN b ELSE Append(b, Invocation(rid, <<>>))

\* appends to the named Invocation; an unknown requestID gets a placeholder
\* Invocation holding the telemetry
AddTelemetry(b, rid, bytes) ==
    IF Holds(b, rid)
    THEN [i \in DOMAIN b |->
            IF b[i].id = rid
            THEN Invocation(rid, Append(b[i].telemetry, bytes))
            ELSE b[i]]
    ELSE Append(b, Invocation(rid, <<bytes>>))

RECURSIVE BatchBytes(_)
BatchBytes(b) ==
    IF b = <<>> THEN 0 ELSE Len(Head(b).telemetry) + BatchBytes(Tail(b))

\* accumulated size over the size threshold, or time since the last harvest
\* over the time threshold
ReadyToHarvest(b, late) == BatchBytes(b) > BatchSize \/ late

\* returns and clears everything when forced or ready; otherwise returns
\* nothing and leaves the batch alone
Harvest(b, force, late) ==
    IF force \/ ReadyToHarvest(b, late)
    THEN [out |-> b, batch |-> <<>>, cleared |-> TRUE]
    ELSE [out |-> <<>>, batch |-> b, cleared |-> FALSE]

\* -------------------------------------------------- AgentTelemetryDispatcher

\* Flatten keeping the telemetry of the first harvested invocation only
Flatten_First(harvested) ==
    IF harvested = <<>> THEN <<>> ELSE Head(harvested).telemetry

\* part_001 lines 71-74: the telemetry of the harvested invocations, in order
RECURSIVE Flatten(_)
Flatten(harvested) ==
    IF harvested = <<>> THEN <<>>
    ELSE Head(harvested).telemetry \o Flatten(Tail(harvested))

\* part_001 lines 68-81: the calls of SendTelemetry after the harvest is
\* given to harvestAgentTelemetry
harvestAgentTelemetry(calls, harvested) ==
    IF Len(harvested) > 0 THEN Append(calls, Flatten(harvested)) ELSE calls

\* part_001 lines 44-54: the select on telemetryChan with a default case.
\* A pending chunk is taken off the channel; with collectData off it is
\* dropped and Dispatch returns at once.
Receive(chan, collect) ==
    IF chan = <<>>
    THEN [chan |-> chan, got |-> <<>>, return |-> FALSE]
    ELSE [chan |-> Tail(chan),
          got |-> IF collect THEN <<Head(chan)>> ELSE <<>>,
          return |-> ~collect]

\* HarvestCall ignoring the force flag and the readiness check
HarvestCall_Always(force, ready) == [called |-> TRUE, force |-> TRUE]

\* part_001 lines 57-64: whether batch.Harvest is called, and with which
\* argument
HarvestCall(force, ready) ==
    IF force THEN [called |-> TRUE, force |-> TRUE]
    ELSE IF ready THEN [called |-> TRUE, force |-> FALSE]
    ELSE [called |-> FALSE, force |-> FALSE]

NoCall ==
    [n |-> 0, force |-> FALSE, early |-> FALSE, ready |-> FALSE,
     harvested |-> FALSE, sendStep |-> FALSE]

AgentInit ==
    /\ collectData \in BOOLEAN
    /\ telemetryChan = <<>>
    /\ batch = <<>>
    /\ elapsed = FALSE
    /\ sendCalls = <<>>
    /\ added = {}
    /\ nextChunk = 1
    /\ lastCall = NoCall

\* the agent writes a chunk of telemetry, which is queued on telemetryChan
TelemetryArrives ==
    /\ nextChunk <= MaxChunks
    /\ telemetryChan' = Append(telemetryChan, nextChunk)
    /\ nextChunk' = nextChunk + 1
    /\ UNCHANGED <<collectData, batch, elapsed, sendCalls, added, lastCall>>
    /\ UNCHANGED <<sendVars, mainVars, splitVars, urlVars>>

\* the batch's time threshold passes
TimePasses ==
    /\ ~elapsed
    /\ elapsed' = TRUE
    /\ UNCHANGED <<collectData, telemetryChan, batch, sendCalls, added,
                   nextChunk, lastCall>>
    /\ UNCHANGED <<sendVars, mainVars, splitVars, urlVars>>

\* part_001 lines 35-37: what AddEvent does to the dispatcher
AddEventEffect(rid) ==
    /\ batch' = AddInvocation(batch, rid)
    /\ UNCHANGED <<collectData, telemetryChan, elapsed, sendCalls, added,
                   nextChunk, lastCall>>

\* part_001 lines 35-37
AddEvent(rid) ==
    /\ AddEventEffect(rid)
    /\ UNCHANGED <<sendVars, mainVars, splitVars, urlVars>>

\* part_001 lines 41-65: what one call of Dispatch does to the dispatcher
DispatchEffect(rid, force) ==
    /\ LET r == Receive(telemetryChan, collectData)
           b == IF r.got = <<>> THEN batch
                ELSE AddTelemetry(batch, rid, r.got[1])
           ready == ReadyToHarvest(b, elapsed)
           call == HarvestCall(force, ready)
           h == IF ~r.return /\ call.called
                THEN Harvest(b, call.force, elapsed)
                ELSE [out |-> <<>>, batch |-> b, cleared |-> FALSE]
       IN /\ telemetryChan' = r.chan
          /\ added' = added \cup { r.got[i] : i \in DOMAIN r.got }
          /\ batch' = h.batch
          /\ elapsed' = (elapsed /\ ~h.cleared)
          /\ sendCalls' = IF ~r.return /\ call.called
                          THEN harvestAgentTelemetry(sendCalls, h.out)
                          ELSE sendCalls
          /\ lastCall' = [n |-> lastCall.n + 1, force |-> force,
                          early |-> r.return, ready |-> ready,
                          harvested |-> ~r.return /\ call.called,
                          sendStep |-> ~r.return /\ call.called]
    /\ UNCHANGED <<collectData, nextChunk>>

\* part_001 lines 41-65, called by any caller
Dispatch(rid, force) ==
    /\ lastCall.n < MaxDispatch
    /\ DispatchEffect(rid, force)
    /\ UNCHANGED <<sendVars, mainVars, splitVars, urlVars>>

AgentNext ==
    \/ TelemetryArrives
    \/ TimePasses
    \/ \E rid \in RequestIDs : AddEvent(rid)
    \/ \E rid \in RequestIDs, force \in BOOLEAN : Dispatch(rid, force)

\* ------------------------------------------------------- getEndpointURL

\* the characters a license key is made of here
KeyChars == {"e", "u", "x"}

LicenseKeys == SeqsUpTo(KeyChars, MaxKeyLen)

\* strings.HasPrefix
HasPrefix(str, prefix) ==
    /\ Len(str) >= Len(prefix)
    /\ SubSeq(str, 1, Len(prefix)) = prefix

\* part_000 lines 26-36
EndpointEU ==
    [logging |-> "https://log-api.eu.newrelic.com/log/v1",
     metrics |-> "https://metric-api.eu.newrelic.com/metric/v1",
     events |-> "https://insights-collector.eu01.nr-data.net/v1/accounts/",
     traces |-> "https://trace-api.eu.newrelic.com/trace/v1"]

EndpointUS ==
    [logging |-> "https://log-api.newrelic.com/log/v1",
     metrics |-> "https://metric-api.newrelic.com/metric/v1",
     events |-> "https://insights-collector.newrelic.com/v1/accounts/",
     traces |-> "https://trace-api.newrelic.com/trace/v1"]

\* an endpoint a user configures for a signal type; "" is none
OverrideURLs == {"", "https://override.example/v1"}

NoOverrides == [sig \in Signals |-> ""]

NoDelivery == [typ |-> "none", uri |-> "", path |-> ""]

\* part_000 lines 88-119
getEndpointURL(key, typ, EndpointOverride) ==
    IF EndpointOverride # "" THEN EndpointOverride
    ELSE IF typ \in Signals
         THEN IF HasPrefix(key, <<"e", "u">>)
              THEN EndpointEU[typ] ELSE EndpointUS[typ]
         ELSE ""

\* part_000 lines 335, 361, 380 and 412: the override argument each call
\* site of sendDataToNR gives getEndpointURL
OverrideArgument(typ) == ""

\* part_000 line 380: the events address is completed with the account id
UriPath(typ) == IF typ = "events" THEN "accountID/events" ELSE ""

UrlInit ==
    /\ licenseKey \in LicenseKeys
    /\ overrides \in [Signals -> OverrideURLs]
    /\ delivered = NoDelivery

\* part_000 lines 335, 361, 380 and 412: a chunk of the signal typ is given
\* to sendData
Deliver(typ) ==
    /\ delivered' =
          [typ |-> typ,
           uri |-> getEndpointURL(licenseKey, typ, OverrideArgument(typ)),
           path |-> UriPath(typ)]
    /\ UNCHANGED <<licenseKey, overrides>>
    /\ UNCHANGED <<sendVars, agentVars, mainVars, splitVars>>

UrlNext == \E typ \in Signals : Deliver(typ)

\* ----------------------------------------------------------------- main

EventTypes == {"INVOKE", "SHUTDOWN"}

\* the Shutdown event carries no request id
NoRequestID == "none"

NoEvent == [type |-> "none", rid |-> NoRequestID]

\* NextEventResponse: EventType and RequestID
Event(type, rid) == [type |-> type, rid |-> rid]

\* a Dispatch call of main that has returned
Call(disp, force, type) == [disp |-> disp, force |-> force, event |-> type]

\* IsShutdown taking every event for a Shutdown event
IsShutdown_Always(ev) == TRUE

\* part_000 lines 533-536: the branch on res.EventType
IsShutdown(ev) == ev.type = "SHUTDOWN"

\* Successor with main returning right after the forced Dispatch of the
\* telemetry dispatcher
Successor_NoAgentFlush(p, ev) ==
    CASE p = "addRequest" -> "dispatch"
      [] p = "dispatch" -> "agentDispatch"
      [] p = "agentDispatch" ->
            IF IsShutdown(ev) THEN "forceDispatch" ELSE "top"
      [] p = "forceDispatch" -> "exited"
      [] p = "forceAgent" -> "exited"

\* part_000 lines 529-543: the statement main executes after the one at p
\* while handling the event ev
Successor(p, ev) ==
    CASE p = "addRequest" -> "dispatch"
      [] p = "dispatch" -> "agentDispatch"
      [] p = "agentDispatch" ->
            IF IsShutdown(ev) THEN "forceDispatch" ELSE "top"
      [] p = "forceDispatch" -> "forceAgent"
      [] p = "forceAgent" -> "exited"

\* why main returns when it leaves the statement at p
ExitReason(p, ev) ==
    IF Successor(p, ev) = "exited" THEN "shutdown" ELSE "none"

\* part_000 lines 470-545: the loop is entered with both dispatchers built
MainInit ==
    /\ ctxDone = FALSE
    /\ mainPc = "top"
    /\ res = NoEvent
    /\ nEvents = 0
    /\ callLog = <<>>
    /\ exitBy = "none"
    /\ queuedAtShutdown = <<>>

\* part_000 lines 472-478: SIGTERM or SIGINT cancels the context
Cancel ==
    /\ ~ctxDone
    /\ mainPc # "exited"
    /\ ctxDone' = TRUE
    /\ UNCHANGED <<mainPc, res, nEvents, callLog, exitBy, queuedAtShutdown>>
    /\ UNCHANGED <<sendVars, agentVars, splitVars, urlVars>>

\* part_000 lines 514-517: the select on ctx.Done with a default case
MainSelect ==
    /\ mainPc = "top"
    /\ mainPc' = IF ctxDone THEN "exited" ELSE "next"
    /\ exitBy' = IF ctxDone THEN "cancelled" ELSE exitBy
    /\ UNCHANGED <<ctxDone, res, nEvents, callLog, queuedAtShutdown>>
    /\ UNCHANGED <<sendVars, agentVars, splitVars, urlVars>>

\* part_000 lines 521-526: NextEvent returns an event
MainNextEvent(ev) ==
    /\ mainPc = "next"
    /\ ev.type = "INVOKE" => nEvents < MaxEvents
    /\ res' = ev
    /\ nEvents' = nEvents + 1
    /\ mainPc' = "addRequest"
    /\ queuedAtShutdown' =
          IF IsShutdown(ev) THEN telemetryChan ELSE queuedAtShutdown
    /\ UNCHANGED <<ctxDone, callLog, exitBy>>
    /\ UNCHANGED <<sendVars, agentVars, splitVars, urlVars>>

\* part_000 lines 521-525: NextEvent returns an error
MainNextEventError ==
    /\ mainPc = "next"
    /\ mainPc' = "exited"
    /\ exitBy' = "error"
    /\ UNCHANGED <<ctxDone, res, nEvents, callLog, queuedAtShutdown>>
    /\ UNCHANGED <<sendVars, agentVars, splitVars, urlVars>>

\* part_000 line 529: AddRequest registers the event's invocation, as
\* AddEvent of part_001 lines 35-37 does
MainAddRequest ==
    /\ mainPc = "addRequest"
    /\ AddEventEffect(res.rid)
    /\ mainPc' = Successor(mainPc, res)
    /\ UNCHANGED <<ctxDone, res, nEvents, callLog, exitBy, queuedAtShutdown>>
    /\ UNCHANGED <<sendVars, splitVars, urlVars>>

\* part_000 lines 530 and 539: Dispatch of the telemetry dispatcher is
\* called and returns
MainDispatch(force) ==
    /\ mainPc = IF force THEN "forceDispatch" ELSE "dispatch"
    /\ callLog' = Append(callLog, Call("telemetry", force, res.type))
    /\ mainPc' = Successor(mainPc, res)
    /\ exitBy' = ExitReason(mainPc, res)
    /\ UNCHANGED <<ctxDone, res, nEvents, queuedAtShutdown>>
    /\ UNCHANGED <<sendVars, agentVars, splitVars, urlVars>>

\* part_000 lines 531 and 540: Dispatch of the agent dispatcher is called
\* and returns
MainAgentDispatch(force) ==
    /\ mainPc = IF force THEN "forceAgent" ELSE "agentDispatch"
    /\ DispatchEffect(res.rid, force)
    /\ callLog' = Append(callLog, Call("agent", force, res.type))
    /\ mainPc' = Successor(mainPc, res)
    /\ exitBy' = ExitReason(mainPc, res)
    /\ UNCHANGED <<ctxDone, res, nEvents, queuedAtShutdown>>
    /\ UNCHANGED <<sendVars, splitVars, urlVars>>

MainNext ==
    \/ Cancel
    \/ MainSelect
    \/ \E rid \in RequestIDs : MainNextEvent(Event("INVOKE", rid))
    \/ MainNextEvent(Event("SHUTDOWN", NoRequestID))
    \/ MainNextEventError
    \/ MainAddRequest
    \/ \E force \in BOOLEAN : MainDispatch(force)
    \/ \E force \in BOOLEAN : MainAgentDispatch(force)
    \/ TelemetryArrives
    \/ TimePasses

\* ---------------------------------------------------------- specifications

\* the dispatcher not in use
SendIdle ==
    /\ logEntries = <<>>
    /\ accountID = FALSE
    /\ pc = "idle"
    /\ data = NilData
    /\ payloads = <<>>
    /\ idx = 1
    /\ waitForSend = 0
    /\ errChan = <<>>
    /\ tasks = <<>>
    /\ chunks = {}
    /\ traceErr = NilError
    /\ result = NoResult
    /\ drainI = 0
    /\ compressFailed = FALSE

AgentIdle ==
    /\ collectData = FALSE
    /\ telemetryChan = <<>>
    /\ batch = <<>>
    /\ elapsed = FALSE
    /\ sendCalls = <<>>
    /\ added = {}
    /\ nextChunk = 1
    /\ lastCall = NoCall

\* main not running
MainIdle ==
    /\ ctxDone = FALSE
    /\ mainPc = "idle"
    /\ res = NoEvent
    /\ nEvents = 0
    /\ callLog = <<>>
    /\ exitBy = "none"
    /\ queuedAtShutdown = <<>>

\* no splitter running
SplitIdle ==
    /\ splitter = "none"
    /\ records = <<>>
    /\ stack = <<>>
    /\ outChunks = <<>>
    /\ splitPc = "idle"
    /\ shrinks = TRUE

\* no delivery address being chosen
UrlIdle ==
    /\ licenseKey = <<>>
    /\ overrides = NoOverrides
    /\ delivered = NoDelivery

InitSend == SendInit /\ AgentIdle /\ MainIdle /\ SplitIdle /\ UrlIdle

InitAgent == AgentInit /\ SendIdle /\ MainIdle /\ SplitIdle /\ UrlIdle

\* one call of sendDataToNR with its delivery goroutines
SpecSend == InitSend /\ [][SendNext]_vars

\* the agent telemetry dispatcher under any sequence of calls and arrivals
SpecAgent == InitAgent /\ [][AgentNext]_vars

InitMain == MainInit /\ AgentInit /\ SendIdle /\ SplitIdle /\ UrlIdle

\* main's event loop driving the agent telemetry dispatcher
SpecMain == InitMain /\ [][MainNext]_vars

InitCancel == SendInit /\ AgentIdle /\ MainIdle /\ SplitIdle /\ UrlIdle

\* part_000 lines 472-478 while sendDataToNR runs
CancelCycle ==
    /\ pc \notin {"returned", "panicked"}
    /\ Cancel

\* sendDataToNR with a healthy network: a send only fails once the context
\* is cancelled
CancelNext ==
    \/ SendSteps
    \/ \E t \in DOMAIN tasks : TaskSendOk(t)
    \/ \E t \in DOMAIN tasks : ctxDone /\ TaskSendFail(t)
    \/ \E t \in DOMAIN tasks : TaskPanic(t)
    \/ CancelCycle

\* one call of sendDataToNR whose context may be cancelled at any moment
SpecCancel == InitCancel /\ [][CancelNext]_vars

InitSplit == SplitInit /\ SendIdle /\ AgentIdle /\ MainIdle /\ UrlIdle

\* one call of either splitting function on any collection
SpecSplit == InitSplit /\ [][SplitNext]_vars

InitUrl == UrlInit /\ SendIdle /\ AgentIdle /\ MainIdle /\ SplitIdle

\* the address of each delivery, for any license key and configuration
SpecUrl == InitUrl /\ [][UrlNext]_vars

\* ------------------------------------------------- claims on sendDataToNR

Failed == { t \in DOMAIN tasks : tasks[t].failed }
InFlight == { t \in DOMAIN tasks : tasks[t].st # "done" }
TasksOf(c) == { t \in DOMAIN tasks : tasks[t].chunk = c }

\* sendDataToNR got past buildPayloads and every Compress call
CleanCycle == result.kind \in {"none", "nil", "aggErr"} /\ ~compressFailed

\* C1: a dispatch cycle whose delivery attempts all complete always finishes:
\* as long as sendDataToNR (payloads built and compressed without error) has
\* neither returned nor faulted, some goroutine of the cycle can take a step,
\* so the await-all is never blocked for good.
C1_CycleFinishes ==
    CleanCycle => (pc \in {"returned", "panicked"} \/ ENABLED SendNext)

\* C2: whenever sendDataToNR has returned, on any return path, no delivery
\* task launched in the cycle is still in flight.
C2_NoTaskInFlightAfterReturn ==
    pc = "returned" => InFlight = {}

\* C3: when building and compression succeed the cycle never faults, and it
\* returns a non-nil aggregate error exactly when some delivery task failed.
C3_ErrorIffFailure ==
    CleanCycle =>
        /\ pc # "panicked"
        /\ pc = "returned" => (result.kind = "aggErr" <=> Failed # {})

\* C4: the failure count a cycle's result reports equals the number k of
\* failed deliveries, and the other n - k tasks completed successfully.
C4_FailureCount ==
    (pc = "returned" /\ result.kind \in {"nil", "aggErr"}) =>
        /\ result.count = Cardinality(Failed)
        /\ Cardinality({ t \in DOMAIN tasks :
                           tasks[t].st = "done" /\ ~tasks[t].failed })
             = Len(tasks) - Cardinality(Failed)

C4_Witness ==
    /\ pc = "returned"
    /\ result.kind = "aggErr"
    /\ Len(tasks) = 3
    /\ result.count = 1
    /\ Cardinality(Failed) = 1

\* C5: the aggregate error a cycle returns carries every individual delivery
\* error: none is left unread on errChan, none is missing from the result.
C5_AllErrorsCarried ==
    (pc = "returned" /\ result.kind = "aggErr") =>
        /\ errChan = <<>>
        /\ result.causes = { ErrValue(t) : t \in Failed }

\* C6: every chunk produced in a cycle is handed to exactly one delivery
\* task, which makes exactly one send attempt: at no time does a chunk have
\* two tasks or a task two attempts, a task that is through with sendData
\* made exactly one attempt, and once the launching code is behind
\* sendDataToNR no chunk is without its task.
C6_OneTaskOneAttempt ==
    /\ \A c \in chunks : Cardinality(TasksOf(c)) <= 1
    /\ \A t \in DOMAIN tasks :
         /\ tasks[t].usable => tasks[t].chunk \in chunks
         /\ tasks[t].sent <= 1
         /\ tasks[t].st # "sending" => tasks[t].sent = 1
    /\ pc \in {"wait", "collect", "drain", "returned"} =>
         \A c \in chunks : Cardinality(TasksOf(c)) = 1

C6_Witness ==
    /\ pc = "returned"
    /\ Cardinality(chunks) = 4
    /\ Failed # {}
    /\ \E c \in chunks : c.sig = "events" /\ c.n = 2
    /\ \A t \in DOMAIN tasks : tasks[t].sent = 1

\* some record of the sequence has a timestamp that does not parse, or a
\* span whose start does not parse
Malformed(entries) ==
    \E i \in DOMAIN entries :
        \/ entries[i].timeOk = FALSE
        \/ \E k \in DOMAIN entries[i].spans : entries[i].spans[k] = FALSE

\* C7: with a malformed record anywhere in the sequence, buildPayloads
\* returns an error and no payloads, and sendDataToNR returns that error
\* without producing a chunk or launching a delivery task.
C7_BuildErrorSendsNothing ==
    Malformed(logEntries) =>
        /\ pc \in {"start", "returned"}
        /\ tasks = <<>>
        /\ chunks = {}
        /\ pc = "returned" => (result.kind = "buildErr" /\ data = NilData)

C7_Witness ==
    /\ pc = "returned"
    /\ result.kind = "buildErr"
    /\ Len(logEntries) = 2
    /\ ~Malformed(SubSeq(logEntries, 1, 1))
    /\ logEntries[1].body = "map"
    /\ ~logEntries[2].spans = <<>>

\* -------------------------------- claims on AgentTelemetryDispatcher.Dispatch

RECURSIVE Occurrences(_, _)
Occurrences(c, slice) ==
    IF slice = <<>> THEN 0
    ELSE (IF Head(slice) = c THEN 1 ELSE 0) + Occurrences(c, Tail(slice))

RECURSIVE Handed(_, _)
\* how many times chunk c was given to SendTelemetry in the calls made
Handed(c, calls) ==
    IF calls = <<>> THEN 0
    ELSE Occurrences(c, Head(calls)) + Handed(c, Tail(calls))

\* C8: with data collection enabled, a chunk added to the batch is handed to
\* SendTelemetry at most once over all harvests, and after a forced Dispatch
\* every chunk added so far has been handed to SendTelemetry exactly once.
C8_HarvestedOnce ==
    collectData =>
        /\ \A c \in added : Handed(c, sendCalls) <= 1
        /\ (lastCall.n > 0 /\ lastCall.force) =>
              \A c \in added : Handed(c, sendCalls) = 1

C8_Witness ==
    /\ collectData
    /\ lastCall.force
    /\ Len(sendCalls) = 2
    /\ added = 1..3
    /\ Len(sendCalls[1]) = 2

IsPrefix(a, b) == Len(a) <= Len(b) /\ SubSeq(b, 1, Len(a)) = a

\* C9: a non-forced Dispatch that finds ReadyToHarvest() false harvests
\* nothing and does not call SendTelemetry; the batch keeps every invocation
\* and every chunk it held, plus at most the one chunk just received.
C9_NotReadyKeepsBatch ==
    [][(lastCall'.n = lastCall.n + 1 /\ ~lastCall'.force /\ ~lastCall'.ready)
         => /\ ~lastCall'.harvested
            /\ sendCalls' = sendCalls
            /\ Len(batch') >= Len(batch)
            /\ \A i \in DOMAIN batch :
                 /\ batch'[i].id = batch[i].id
                 /\ IsPrefix(batch[i].telemetry, batch'[i].telemetry)
            /\ BatchBytes(batch') <= BatchBytes(batch) + 1]_vars

C9_Witness ==
    /\ collectData
    /\ lastCall.n = 2
    /\ ~lastCall.force
    /\ ~lastCall.ready
    /\ BatchBytes(batch) = 1
    /\ Len(batch) = 2
    /\ telemetryChan = <<>>
    /\ sendCalls = <<>>

\* C10: every Dispatch call with force = true invokes batch.Harvest(true)
\* and hands the harvest to the send step before it returns, whatever the
\* collectData setting and whether or not a chunk is pending on the channel.
C10_ForcedAlwaysHarvests ==
    (lastCall.n > 0 /\ lastCall.force) =>
        (lastCall.harvested /\ lastCall.sendStep)

\* chunk c waits unread on the telemetry channel
Unread(c) == \E i \in DOMAIN telemetryChan : telemetryChan[i] = c

\* C11: with data collection enabled, when main has returned after handling
\* a Shutdown event, every chunk that was queued on the telemetry channel
\* when the event was received has been added to the batch and handed to
\* SendTelemetry, and none of them is left unread on the channel.
C11_ShutdownFlushLosesNothing ==
    (collectData /\ exitBy = "shutdown") =>
        \A i \in DOMAIN queuedAtShutdown :
            /\ queuedAtShutdown[i] \in added
            /\ Handed(queuedAtShutdown[i], sendCalls) >= 1
            /\ ~Unread(queuedAtShutdown[i])

\* the Dispatch calls of one dispatcher with one force flag that returned
CallsOf(disp, force) ==
    { i \in DOMAIN callLog :
        callLog[i].disp = disp /\ callLog[i].force = force }

\* main stands between two events, or has returned
BetweenEvents == mainPc \in {"top", "next", "exited"}

\* C12: once an event returned by NextEvent is handled, Dispatch has been
\* called once without force on the telemetry dispatcher and once on the
\* agent dispatcher for it, and every Dispatch call with force = true was
\* made while handling a Shutdown event.
C12_DispatchPerEvent ==
    /\ \A i \in DOMAIN callLog :
          callLog[i].force => callLog[i].event = "SHUTDOWN"
    /\ BetweenEvents =>
          /\ Cardinality(CallsOf("telemetry", FALSE)) = nEvents
          /\ Cardinality(CallsOf("agent", FALSE)) = nEvents

C12_Witness ==
    /\ mainPc = "exited"
    /\ exitBy = "shutdown"
    /\ nEvents = MaxEvents + 1
    /\ Cardinality(CallsOf("agent", FALSE)) = MaxEvents + 1
    /\ Cardinality(CallsOf("agent", TRUE)) = 1

\* C13: whenever main has returned after receiving a Shutdown event, the
\* forced Dispatch of the telemetry dispatcher and then the forced Dispatch
\* of the agent dispatcher have been called and have returned.
C13_FlushBeforeExit ==
    exitBy = "shutdown" =>
        /\ res.type = "SHUTDOWN"
        /\ \E i, j \in DOMAIN callLog :
              /\ i < j
              /\ callLog[i] = Call("telemetry", TRUE, "SHUTDOWN")
              /\ callLog[j] = Call("agent", TRUE, "SHUTDOWN")

C13_Witness ==
    /\ exitBy = "shutdown"
    /\ nEvents = 1
    /\ callLog[Len(callLog)] = Call("agent", TRUE, "SHUTDOWN")
    /\ ctxDone

\* C14: once the context is cancelled, a cycle that built and compressed its
\* payloads neither faults nor hangs: until sendDataToNR has returned some
\* goroutine of the cycle can take a step, and it returns the aggregate
\* error when a delivery ended with an error.
C14_CancelEndsCycle ==
    (ctxDone /\ CleanCycle) =>
        /\ pc # "panicked"
        /\ pc = "returned" \/ ENABLED CancelNext
        /\ (pc = "returned" /\ Failed # {}) => result.kind = "aggErr"

RECURSIVE Concat(_)
\* the records of a sequence of chunks, in chunk order
Concat(cs) == IF cs = <<>> THEN <<>> ELSE Head(cs) \o Concat(Tail(cs))

\* C15: when either splitting function returns, the records of the returned
\* chunks, concatenated in chunk order, are exactly the input sequence: no
\* record is dropped, duplicated or moved.
C15_ChunksConcatenateToInput ==
    splitPc = "returned" => Concat(outChunks) = records

C15_Witness ==
    /\ splitPc = "returned"
    /\ splitter = "CompressedPayloadsForLogEvents"
    /\ Len(records) = 3
    /\ Len(outChunks) = 2
    /\ Len(outChunks[2]) = 2

\* C16: every chunk a splitting function returns compresses to at most the
\* function's limit, and an input that compresses to at most the limit is
\* returned as exactly one chunk holding all its records.
C16_ChunksFit ==
    splitPc = "returned" =>
        /\ \A i \in DOMAIN outChunks :
              CompressedSize(splitter, outChunks[i]) <= MaxSize(splitter)
        /\ CompressedSize(splitter, records) <= MaxSize(splitter)
              => outChunks = <<records>>

C16_Witness ==
    /\ splitPc = "returned"
    /\ splitter = "marshalAndCompressData"
    /\ Len(records) = 2
    /\ CompressedSize(splitter, records) = MaxSize(splitter)
    /\ outChunks = <<records>>

\* every single record, and the empty collection, fits the limit
AllFit ==
    /\ CompressedSize(splitter, <<>>) <= MaxSize(splitter)
    /\ \A i \in DOMAIN records :
          CompressedSize(splitter, <<records[i]>>) <= MaxSize(splitter)

\* C17: when every single record and the empty collection fit the limit,
\* every recursive call gets a strictly shorter collection than its caller,
\* so a call at depth d holds at most Len(records) - d records, the
\* recursion never exhausts the stack, and the function keeps making
\* progress until it returns.
C17_BisectionTerminates ==
    AllFit =>
        /\ shrinks
        /\ splitPc # "overflow"
        /\ \A i \in DOMAIN stack :
              stack[i].depth + Len(stack[i].recs) <= Len(records)
        /\ splitPc = "returned" \/ ENABLED SplitNext

C17_Witness ==
    /\ AllFit
    /\ splitPc = "returned"
    /\ Len(records) = MaxSplitLen
    /\ Len(outChunks) = MaxSplitLen

\* C18: SendTelemetry is never called with an empty telemetry slice: a
\* harvest whose invocations hold no telemetry causes no call at all.
C18_EmptyHarvestSendsNothing ==
    \A i \in DOMAIN sendCalls : sendCalls[i] # <<>>

\* the address the claim gives a delivery of signal type typ
ClaimedURL(typ) ==
    IF overrides[typ] # "" THEN overrides[typ]
    ELSE IF HasPrefix(licenseKey, <<"e", "u">>)
         THEN EndpointEU[typ] ELSE EndpointUS[typ]

\* C19: a chunk of any of the four signal types is delivered to the
\* override configured for that type when there is one, and otherwise to
\* the EU endpoint if the license key starts with "eu" and to the US
\* endpoint if not.
C19_OverrideWins ==
    delivered.typ \in Signals => delivered.uri = ClaimedURL(delivered.typ)

RECURSIVE BodyIndices(_, _)
\* the positions from i on of the records that carry a body, in order
BodyIndices(entries, i) ==
    IF i > Len(entries) THEN <<>>
    ELSE (IF entries[i].body # "nil" THEN <<i>> ELSE <<>>)
           \o BodyIndices(entries, i + 1)

\* the input records a collection's entries were built from, in order
SourcesOf(collection) == [k \in DOMAIN collection |-> collection[k].src]

\* C20: when buildPayloads has succeeded on n records, the events
\* collection has n entries, the i-th built from the i-th record, and the
\* logging collection has one entry for each record with a body, in input
\* order.
C20_BuildKeepsOrder ==
    (pc \notin {"start", "idle"} /\ result.kind # "buildErr") =>
        /\ SourcesOf(data["events"]) = [i \in 1..Len(logEntries) |-> i]
        /\ SourcesOf(data["logging"]) = BodyIndices(logEntries, 1)

C20_Witness ==
    /\ pc = "returned"
    /\ result.kind = "nil"
    /\ Len(logEntries) = 2
    /\ logEntries[1].body = "nil"
    /\ logEntries[2].body = "map"
    /\ Len(data["events"]) = 2
    /\ Len(data["logging"]) = 1

\* C21: in a cycle that built and compressed its payloads, once every
\* delivery task is launched the wait-for-all counter equals the number of
\* launched tasks that have not finished, so it is zero exactly when all of
\* them have finished, for any number of logging chunks.
C21_JoinAccounting ==
    (CleanCycle /\ pc \in {"wait", "collect", "drain", "returned"}) =>
        waitForSend = Cardinality(InFlight)

\* C22: a failing delivery task is never blocked while placing its error
\* into errChan, however many tasks of the cycle fail.
C22_ErrorReportNeverBlocks ==
    Blocked = {}

\* C23: whenever main has returned, for whatever reason, a forced Dispatch
\* of the telemetry dispatcher and a forced Dispatch of the agent dispatcher
\* have been called and have returned.
C23_EveryExitFlushes ==
    mainPc = "exited" =>
        /\ CallsOf("telemetry", TRUE) # {}
        /\ CallsOf("agent", TRUE) # {}

====
